---- MODULE Spec2Model ----
(***************************************************************************)
(* desidict.py: a crowdsourced dictionary.  Two MongoDB collections, users *)
(* and words, are mutated by Flask handlers: submission (postword), the    *)
(* four vote handlers, moderation (approve_word), and read by the listing  *)
(* (get_words) and the text search (search).                               *)
(*                                                                         *)
(* A word's _id is its position in the words collection: ObjectIds of one  *)
(* server process grow with insertion order, which is all the code relies  *)
(* on (sort on _id, find the latest _id).  A Mongo array is a function     *)
(* from its elements to their number of occurrences: the code only tests   *)
(* membership, never the order of the elements.                            *)
(***************************************************************************)
EXTENDS Integers, Sequences, FiniteSets, TLC

\* ----------------------------------------------------------------- bounds
NumUsers == 2
MaxWords == 2
MaxCount == 2
MaxUndo == 1
NumTerms == 2
MaxPage == 2
MaxListWords == 10
MaxHidden == 3

\* ------------------------------------------------------ program constants
HomeLimit == 8
SearchLimit == 2
NoUser == 0
BadId == 0

Users == 1..NumUsers
Terms == 1..NumTerms
Pages == 1..MaxPage

VARIABLES words, users, session, pw, resp, page

vars == <<words, users, session, pw, resp, page>>

\* ------------------------------------------------------------ documents
EmptyArr == <<>>

CountOf(arr, x) == IF x \in DOMAIN arr THEN arr[x] ELSE 0

Has(arr, x) == x \in DOMAIN arr

\* $push where the code has $addToSet
AddToSet_AsPush(arr, x) ==
    IF x \in DOMAIN arr THEN [arr EXCEPT ![x] = @ + 1] ELSE arr @@ (x :> 1)

AddToSet(arr, x) == IF x \in DOMAIN arr THEN arr ELSE arr @@ (x :> 1)

Push(arr, x) ==
    IF x \in DOMAIN arr THEN [arr EXCEPT ![x] = @ + 1] ELSE arr @@ (x :> 1)

Pull(arr, x) == [y \in (DOMAIN arr) \ {x} |-> arr[y]]

NewUser == [words_author |-> EmptyArr, upvotes |-> EmptyArr, downvotes |-> EmptyArr]

NewWord(author, text) ==
    [status |-> "pending", upvote |-> 0, downvote |-> 0,
     authorID |-> author, text |-> text]

\* a session holds 'google_id' after a login and 'url' after a page that
\* records where to return to; session.clear() drops both
NoSession == [google_id |-> NoUser, url |-> FALSE]

Idle == [pc |-> "idle", authorID |-> NoUser, word_id |-> BadId]

NoPage == [op |-> "none", items |-> <<>>, totalPages |-> 0, pageNo |-> 0, query |-> 0]

Resp(op, kind) == [op |-> op, kind |-> kind]

\* 'google_id' in session
LoggedIn(c) == session[c].google_id # NoUser

\* return redirect(session['url']): KeyError in a session without 'url'
Back(c) == IF session[c].url THEN "back" ELSE "error"

\* ObjectId(word_id): a malformed string raises InvalidId
WellFormed(id) == id # BadId

Exists(ws, id) == id \in DOMAIN ws

\* db.words.update_one({_id: id}, {$inc: {field: d}}): no match, no change
IncUpvote(ws, id, d) ==
    IF Exists(ws, id) THEN [ws EXCEPT ![id].upvote = @ + d] ELSE ws

IncDownvote(ws, id, d) ==
    IF Exists(ws, id) THEN [ws EXCEPT ![id].downvote = @ + d] ELSE ws

\* update_one called with upsert=True
SetStatus_Upsert(ws, id, s) ==
    IF Exists(ws, id) THEN [ws EXCEPT ![id].status = s]
    ELSE Append(ws, [status |-> s, upvote |-> 0, downvote |-> 0,
                     authorID |-> NoUser, text |-> {}])

\* db.words.update_one({_id: id}, {$set: {status: s}})
SetStatus(ws, id, s) ==
    IF Exists(ws, id) THEN [ws EXCEPT ![id].status = s] ELSE ws

\* db.users.update_one({google_id: u}, ...): no such document, no change
AddUpvote(us, u, id) ==
    IF u \in DOMAIN us THEN [us EXCEPT ![u].upvotes = AddToSet(@, id)] ELSE us

\* the $pull of the upvotes array forgotten
PullUpvote_Forgotten(us, u, id) == us

PullUpvote(us, u, id) ==
    IF u \in DOMAIN us THEN [us EXCEPT ![u].upvotes = Pull(@, id)] ELSE us

AddDownvote(us, u, id) ==
    IF u \in DOMAIN us THEN [us EXCEPT ![u].downvotes = AddToSet(@, id)] ELSE us

PullDownvote(us, u, id) ==
    IF u \in DOMAIN us THEN [us EXCEPT ![u].downvotes = Pull(@, id)] ELSE us

PushAuthored(us, u, id) ==
    IF u \in DOMAIN us THEN [us EXCEPT ![u].words_author = Push(@, id)] ELSE us

\* the counters the model explores stay within -MaxUndo .. MaxCount
CanInc(n) == n < MaxCount

CanDec(n) == n > -MaxUndo

\* ------------------------------------------------------------- identity
\* /user/callback: the provider vouches for user c in browser c
callback(c) ==
    /\ session' = [session EXCEPT ![c].google_id = c]
    /\ users' = IF c \in DOMAIN users THEN users ELSE users @@ (c :> NewUser)
    /\ resp' = Resp("callback", "protected_area")
    /\ UNCHANGED <<words, pw, page>>

\* /user/logout
userlogout(c) ==
    /\ session' = [session EXCEPT ![c] = NoSession]
    /\ resp' = Resp("userlogout", "login")
    /\ UNCHANGED <<words, users, pw, page>>

\* ---------------------------------------------------------------- votes
upvote_word(c, id) ==
    /\ Exists(words, id) => CanInc(words[id].upvote)
    /\ IF ~LoggedIn(c)
       THEN /\ resp' = Resp("upvote_word", "login")
            /\ UNCHANGED <<words, users>>
       ELSE IF ~WellFormed(id)
       THEN /\ resp' = Resp("upvote_word", "error")
            /\ UNCHANGED <<words, users>>
       ELSE /\ words' = IncUpvote(words, id, 1)
            /\ users' = AddUpvote(users, session[c].google_id, id)
            /\ resp' = Resp("upvote_word", Back(c))
    /\ UNCHANGED <<session, pw, page>>

undo_upvote(c, id) ==
    /\ Exists(words, id) => CanDec(words[id].upvote)
    /\ IF ~WellFormed(id)
       THEN /\ resp' = Resp("undo_upvote", "error")
            /\ UNCHANGED <<words, users>>
       ELSE /\ words' = IncUpvote(words, id, -1)
            /\ IF ~LoggedIn(c)
               THEN /\ resp' = Resp("undo_upvote", "error")
                    /\ UNCHANGED users
               ELSE /\ users' = PullUpvote(users, session[c].google_id, id)
                    /\ resp' = Resp("undo_upvote", Back(c))
    /\ UNCHANGED <<session, pw, page>>

undo_downvote(c, id) ==
    /\ Exists(words, id) => CanDec(words[id].downvote)
    /\ IF ~WellFormed(id)
       THEN /\ resp' = Resp("undo_downvote", "error")
            /\ UNCHANGED <<words, users>>
       ELSE /\ words' = IncDownvote(words, id, -1)
            /\ IF ~LoggedIn(c)
               THEN /\ resp' = Resp("undo_downvote", "error")
                    /\ UNCHANGED users
               ELSE /\ users' = PullDownvote(users, session[c].google_id, id)
                    /\ resp' = Resp("undo_downvote", Back(c))
    /\ UNCHANGED <<session, pw, page>>

downvote_word(c, id) ==
    /\ Exists(words, id) => CanInc(words[id].downvote)
    /\ IF ~LoggedIn(c)
       THEN /\ resp' = Resp("downvote_word", "login")
            /\ UNCHANGED <<words, users>>
       ELSE IF ~WellFormed(id)
       THEN /\ resp' = Resp("downvote_word", "error")
            /\ UNCHANGED <<words, users>>
       ELSE /\ words' = IncDownvote(words, id, 1)
            /\ users' = AddDownvote(users, session[c].google_id, id)
            /\ resp' = Resp("downvote_word", Back(c))
    /\ UNCHANGED <<session, pw, page>>

\* ----------------------------------------------------------- submission
\* db.words.find(filter={}, sort=[('_id',-1)]).limit(1): the latest _id
Latest(ws) == Len(ws)

\* The form of a submission: whether every required field is present, and
\* the terms of its word and definition.
Forms == [complete : BOOLEAN, text : {{1}}]

\* postword up to db.words.insert_one(json): session['url'] is set first.
\* A missing form field or a missing session raises KeyError, caught by
\* the handler's except.
postword_insert(c, form) ==
    /\ pw[c].pc = "idle"
    /\ Len(words) < MaxWords
    /\ IF ~form.complete \/ ~LoggedIn(c)
       THEN /\ resp' = Resp("postword", "addword")
            /\ UNCHANGED <<words, pw>>
       ELSE /\ words' = Append(words, NewWord(session[c].google_id, form.text))
            /\ pw' = [pw EXCEPT ![c] = [pc |-> "inserted",
                                        authorID |-> session[c].google_id,
                                        word_id |-> BadId]]
            /\ UNCHANGED resp
    /\ session' = [session EXCEPT ![c].url = TRUE]
    /\ UNCHANGED <<users, page>>

\* word_id = the latest word of the collection
postword_find(c) ==
    /\ pw[c].pc = "inserted"
    /\ pw' = [pw EXCEPT ![c] = [@ EXCEPT !.pc = "found", !.word_id = Latest(words)]]
    /\ UNCHANGED <<words, users, session, resp, page>>

\* db.users.update_one({google_id: authorID}, {$push: {words_author: word_id}})
postword_push(c) ==
    /\ pw[c].pc = "found"
    /\ users' = PushAuthored(users, pw[c].authorID, pw[c].word_id)
    /\ pw' = [pw EXCEPT ![c] = Idle]
    /\ resp' = Resp("postword", "addword")
    /\ UNCHANGED <<words, session, page>>

\* ----------------------------------------------------------- moderation
ModActions == {"approve", "decline", "other"}

\* The list read back from the cursor is never None, so update_one runs
\* whether or not the word is stored; no session is consulted.
approve_word(action, id) ==
    /\ IF ~WellFormed(id)
       THEN /\ resp' = Resp("approve_word", "error")
            /\ UNCHANGED words
       ELSE /\ words' = IF action = "approve" THEN SetStatus(words, id, "approved")
                        ELSE IF action = "decline" THEN SetStatus(words, id, "declined")
                        ELSE words
            /\ resp' = Resp("approve_word", "admin")
    /\ UNCHANGED <<users, session, pw, page>>

\* -------------------------------------------------------------- listing
\* math.ceil(n / limit)
Ceil(n, limit) == (n + limit - 1) \div limit

\* the _id key of the sort ascending
Precedes_IdAscending(ws, a, b) ==
    \/ ws[a].upvote > ws[b].upvote
    \/ ws[a].upvote = ws[b].upvote /\ a < b

\* {"$sort": {"upvote": DESCENDING, "_id": DESCENDING}}
Precedes(ws, a, b) ==
    \/ ws[a].upvote > ws[b].upvote
    \/ ws[a].upvote = ws[b].upvote /\ a > b

RECURSIVE SortIds(_, _)
SortIds(ws, S) ==
    IF S = {} THEN <<>>
    ELSE LET first == CHOOSE a \in S : \A b \in S \ {a} : Precedes(ws, a, b)
         IN  <<first>> \o SortIds(ws, S \ {first})

Approved(ws, id) == ws[id].status = "approved"

\* '$text': {'$search': q}: the words whose indexed text holds the term
Matches(ws, id, q) == q \in ws[id].text

\* {"$match": {"status": "approved"}}
MatchApproved(ws, seq) ==
    LET Test(id) == Approved(ws, id) IN SelectSeq(seq, Test)

\* {"$skip": offset}, {"$limit": limit}
SkipLimit(seq, offset, limit) ==
    SubSeq(seq, offset + 1, IF offset + limit < Len(seq) THEN offset + limit ELSE Len(seq))

Offset(pageNo, limit) == (pageNo - 1) * limit

\* the aggregate of get_words: the ids of the page
HomePage(ws, pageNo) ==
    SkipLimit(MatchApproved(ws, SortIds(ws, DOMAIN ws)), Offset(pageNo, HomeLimit), HomeLimit)

\* len(word_order) of get_words
HomeCount(ws) == Cardinality({id \in DOMAIN ws : Approved(ws, id)})

\* upvote_status / downvote_status of the items, for a logged-in viewer
Flag(c, arr, id) ==
    IF ~LoggedIn(c) THEN "unset" ELSE IF Has(arr, id) THEN "yes" ELSE "no"

Annotate(c, ids) ==
    [i \in 1..Len(ids) |->
        [id |-> ids[i],
         upvote_status |-> Flag(c, IF LoggedIn(c) THEN users[c].upvotes ELSE EmptyArr, ids[i]),
         downvote_status |-> Flag(c, IF LoggedIn(c) THEN users[c].downvotes ELSE EmptyArr, ids[i])]]

get_words(c, pageNo) ==
    /\ page' = [op |-> "get_words",
                items |-> Annotate(c, HomePage(words, pageNo)),
                totalPages |-> Ceil(HomeCount(words), HomeLimit),
                pageNo |-> pageNo,
                query |-> 0]
    /\ session' = [session EXCEPT ![c].url = TRUE]
    /\ resp' = Resp("get_words", "home")
    /\ UNCHANGED <<words, users, pw>>

\* len(word_order) of search: every word the text index matches
SearchCount(ws, q) == Cardinality({id \in DOMAIN ws : Matches(ws, id, q)})

\* the second aggregate of search: $match on status and $text, $sort,
\* $skip, $limit
SearchPage(ws, q, pageNo) ==
    SkipLimit(SortIds(ws, {id \in DOMAIN ws : Approved(ws, id) /\ Matches(ws, id, q)}),
              Offset(pageNo, SearchLimit), SearchLimit)

search(q, pageNo) ==
    /\ page' = [op |-> "search",
                items |-> [i \in 1..Len(SearchPage(words, q, pageNo)) |->
                             [id |-> SearchPage(words, q, pageNo)[i],
                              upvote_status |-> "unset", downvote_status |-> "unset"]],
                totalPages |-> Ceil(SearchCount(words, q), SearchLimit),
                pageNo |-> pageNo,
                query |-> q]
    /\ resp' = Resp("search", "home")
    /\ UNCHANGED <<words, users, session, pw>>

\* ------------------------------------------------- the vote specification
\* One submitted word (or none yet), every user registered by an earlier
\* login, nobody logged in; the browsers have all opened the home page
\* before, or none has.
SeedStore == <<NewWord(1, {1})>>

SeedUsers == [u \in Users |-> IF u = 1 THEN [NewUser EXCEPT !.words_author = Push(EmptyArr, 1)] ELSE NewUser]

VoteIds == {BadId, 1}

Init ==
    /\ words \in {<<>>, SeedStore}
    /\ users = IF words = <<>> THEN [u \in Users |-> NewUser] ELSE SeedUsers
    /\ \E visited \in BOOLEAN :
          session = [c \in Users |-> [google_id |-> NoUser, url |-> visited]]
    /\ pw = [c \in Users |-> Idle]
    /\ resp = Resp("none", "none")
    /\ page = NoPage

Next ==
    \/ \E c \in Users : callback(c)
    \/ \E c \in Users : userlogout(c)
    \/ \E c \in Users, id \in VoteIds : upvote_word(c, id)
    \/ \E c \in Users, id \in VoteIds : undo_upvote(c, id)
    \/ \E c \in Users, id \in VoteIds : downvote_word(c, id)
    \/ \E c \in Users, id \in VoteIds : undo_downvote(c, id)

Spec == Init /\ [][Next]_vars

\* ------------------------------------------------------------ vote claims
Upvoters(id) == {u \in DOMAIN users : Has(users[u].upvotes, id)}

Downvoters(id) == {u \in DOMAIN users : Has(users[u].downvotes, id)}

\* C1: in every reachable state no word id is in both the upvotes and the
\* downvotes array of the same user.
C1_NoDoubleVote ==
    \A u \in DOMAIN users :
        (DOMAIN users[u].upvotes) \cap (DOMAIN users[u].downvotes) = {}

\* C2: in every reachable state every word's upvote and downvote counters
\* are greater than or equal to 0.
C2_CountersNonNegative ==
    \A id \in DOMAIN words : words[id].upvote >= 0 /\ words[id].downvote >= 0

\* C5: an upvote of an existing word by a logged-in user adds exactly 1 to
\* the word's upvote counter and leaves the id exactly once in the user's
\* upvotes array; when the id was already there (a repeated upvote) the
\* array still holds it once and the counter still grows by 1.
C5_UpvoteAddsOne ==
    [][\A c \in Users, id \in DOMAIN words :
          (LoggedIn(c) /\ upvote_word(c, id)) =>
              /\ words'[id].upvote = words[id].upvote + 1
              /\ CountOf(users'[c].upvotes, id) = 1]_vars

\* C5 witness: an upvote has just been answered, the counter of a word is
\* 2 and a single user holds the id, once: more upvotes were counted than
\* users hold the id.
C5_Witness ==
    /\ resp = Resp("upvote_word", "back")
    /\ \E id \in DOMAIN words, c \in Users :
          /\ words[id].upvote = 2
          /\ Upvoters(id) = {c}
          /\ CountOf(users[c].upvotes, id) = 1
          /\ Downvoters(id) = {}
          /\ words[id].downvote = 0

\* C6: each of the four vote handlers, called without a session on a
\* stored word, answers with the redirect to login and leaves words and
\* users unchanged.
C6_UnauthenticatedVoteIsRefused ==
    [][\A c \in Users, id \in DOMAIN words :
          (~LoggedIn(c) /\ (\/ upvote_word(c, id) \/ undo_upvote(c, id)
                            \/ downvote_word(c, id) \/ undo_downvote(c, id))) =>
              /\ resp'.kind = "login"
              /\ UNCHANGED <<words, users>>]_vars

\* ---------------------------------------------- votes, one at a time
\* Each user upvotes only a stored word that is not in their upvotes array
\* and undoes only one that is; the same for downvotes.
SerialUpvote(c, id) ==
    /\ LoggedIn(c) /\ Exists(words, id) /\ ~Has(users[c].upvotes, id)
    /\ upvote_word(c, id)

SerialUndoUpvote(c, id) ==
    /\ LoggedIn(c) /\ Exists(words, id) /\ Has(users[c].upvotes, id)
    /\ undo_upvote(c, id)

SerialDownvote(c, id) ==
    /\ LoggedIn(c) /\ Exists(words, id) /\ ~Has(users[c].downvotes, id)
    /\ downvote_word(c, id)

SerialUndoDownvote(c, id) ==
    /\ LoggedIn(c) /\ Exists(words, id) /\ Has(users[c].downvotes, id)
    /\ undo_downvote(c, id)

NextSerial ==
    \/ \E c \in Users : callback(c)
    \/ \E c \in Users : userlogout(c)
    \/ \E c \in Users, id \in VoteIds : SerialUpvote(c, id)
    \/ \E c \in Users, id \in VoteIds : SerialUndoUpvote(c, id)
    \/ \E c \in Users, id \in VoteIds : SerialDownvote(c, id)
    \/ \E c \in Users, id \in VoteIds : SerialUndoDownvote(c, id)

SpecSerial == Init /\ [][NextSerial]_vars

\* C10: with the votes run one at a time under that discipline, every
\* word's upvote counter is the number of users whose upvotes array holds
\* its id, and its downvote counter the number whose downvotes array does.
C10_CountersMatchSets ==
    \A id \in DOMAIN words :
        /\ words[id].upvote = Cardinality(Upvoters(id))
        /\ words[id].downvote = Cardinality(Downvoters(id))

\* C10 witness: an undo has just run, one user still holds the upvote and
\* every user holds a downvote.
C10_Witness ==
    /\ resp = Resp("undo_upvote", "back")
    /\ \E id \in DOMAIN words :
          /\ Cardinality(Upvoters(id)) = 1
          /\ Downvoters(id) = Users

\* ------------------------------------------- concurrent submissions
InitEmpty ==
    /\ words = <<>>
    /\ users = <<>>
    /\ session = [c \in Users |-> NoSession]
    /\ pw = [c \in Users |-> Idle]
    /\ resp = Resp("none", "none")
    /\ page = NoPage

NextPost ==
    \/ \E c \in Users : callback(c)
    \/ \E c \in Users : userlogout(c)
    \/ \E c \in Users, form \in Forms : postword_insert(c, form)
    \/ \E c \in Users : postword_find(c)
    \/ \E c \in Users : postword_push(c)

SpecPost == InitEmpty /\ [][NextPost]_vars

\* C3: once every submission has completed, every id in a user's
\* words_author identifies a stored word whose authorID is that user, also
\* when two users submitted concurrently.
C3_AuthoredWordsBelongToAuthor ==
    (\A c \in Users : pw[c].pc = "idle") =>
        \A u \in DOMAIN users : \A id \in DOMAIN users[u].words_author :
            Exists(words, id) /\ words[id].authorID = u

\* ------------------------------------------- moderation and listing
ModIds == 0..(MaxWords + 1)

NextModerate ==
    \/ \E c \in Users : callback(c)
    \/ \E c \in Users, form \in Forms : postword_insert(c, form)
    \/ \E c \in Users : postword_find(c)
    \/ \E c \in Users : postword_push(c)
    \/ \E a \in ModActions, id \in ModIds : approve_word(a, id)
    \/ \E c \in Users, p \in Pages : get_words(c, p)

SpecModerate == InitEmpty /\ [][NextModerate]_vars

Listed(ws, id) == \E p \in Pages : \E i \in 1..Len(HomePage(ws, p)) : HomePage(ws, p)[i] = id

\* C4: a word that is declined is in no page of the listing after any
\* later operation.
C4_DeclinedStaysHidden ==
    [][\A id \in DOMAIN words :
          words[id].status = "declined" => ~Listed(words', id)]_vars

\* ------------------------------------------------- listing and search
\* Stores of up to MaxListWords words: the upvote counters follow one of
\* four profiles, any of the first MaxHidden words may be pending or
\* declined, and the words hold either all the same term or alternating
\* terms.  User 1, the author, is logged in; the others are not; every
\* browser has opened the home page.  The
\* moderator acts on a malformed id, on the first word, or on an id past
\* the last word.
Profiles == {"descending", "ascending", "flat", "cyclic"}

ProfileUpvote(profile, n, i) ==
    CASE profile = "descending" -> n + 1 - i
      [] profile = "ascending" -> i
      [] profile = "flat" -> 0
      [] OTHER -> i % 3

ListStore(n, profile, hidden, sameText) ==
    [i \in 1..n |->
        [status |-> IF i \notin hidden THEN "approved"
                    ELSE IF i % 2 = 0 THEN "pending" ELSE "declined",
         upvote |-> ProfileUpvote(profile, n, i),
         downvote |-> 0,
         authorID |-> 1,
         text |-> IF sameText THEN {1} ELSE {(i % NumTerms) + 1}]]

InitList ==
    /\ \E n \in 0..MaxListWords, profile \in Profiles, sameText \in BOOLEAN :
          \E hidden \in SUBSET (1..(IF n < MaxHidden THEN n ELSE MaxHidden)) :
              /\ words = ListStore(n, profile, hidden, sameText)
              /\ users = [u \in Users |->
                            IF u = 1 THEN [NewUser EXCEPT !.words_author = [i \in 1..n |-> 1]]
                            ELSE NewUser]
    /\ session = [c \in Users |-> [google_id |-> IF c = 1 THEN c ELSE NoUser, url |-> TRUE]]
    /\ pw = [c \in Users |-> Idle]
    /\ resp = Resp("none", "none")
    /\ page = NoPage

NextList ==
    \/ \E c \in Users, p \in Pages : get_words(c, p)
    \/ \E q \in Terms, p \in Pages : search(q, p)
    \/ \E a \in ModActions, id \in {BadId, 1, Len(words) + 1} : approve_word(a, id)

SpecList == InitList /\ [][NextList]_vars

ApprovedIds == {id \in DOMAIN words : words[id].status = "approved"}

\* the number of approved words listed before id: more upvotes, or as many
\* and a greater id
Rank(S, id) ==
    Cardinality({v \in S : \/ words[v].upvote > words[id].upvote
                           \/ words[v].upvote = words[id].upvote /\ v > id})

IsCeil(t, n, d) == t * d >= n /\ (t - 1) * d < n

\* C7: a search answers only approved words that hold the term, and its
\* totalPages is ceil(number of approved words holding the term / 2); when
\* exactly one approved word holds the term, page 1 is that word and
\* totalPages is 1.
C7_SearchCountsApprovedMatches ==
    (resp.op = "search" /\ page.op = "search") =>
        LET hits == {id \in ApprovedIds : page.query \in words[id].text}
        IN  /\ \A i \in 1..Len(page.items) : page.items[i].id \in hits
            /\ IsCeil(page.totalPages, Cardinality(hits), 2)
            /\ (Cardinality(hits) = 1 /\ page.pageNo = 1) =>
                   /\ Len(page.items) = 1
                   /\ page.totalPages = 1

\* C8: page p of the listing is exactly the approved words at positions
\* (p-1)*8 .. p*8-1 of the approved words ordered by upvote descending,
\* then id descending, and totalPages is ceil(number of approved words / 8);
\* with 10 approved words of upvotes 10..1, page 1 is the 8 words of
\* upvotes 10..3 in that order and totalPages is 2.
C8_ListingIsThePageOfTheRanking ==
    (resp.op = "get_words" /\ page.op = "get_words") =>
        LET first == (page.pageNo - 1) * 8
            onPage == {id \in ApprovedIds : Rank(ApprovedIds, id) \in first..(first + 7)}
        IN  /\ Len(page.items) = Cardinality(onPage)
            /\ \A i \in 1..Len(page.items) :
                  /\ page.items[i].id \in ApprovedIds
                  /\ Rank(ApprovedIds, page.items[i].id) = first + i - 1
            /\ IsCeil(page.totalPages, Cardinality(ApprovedIds), 8)
            /\ (/\ Len(words) = 10 /\ ApprovedIds = 1..10 /\ page.pageNo = 1
                /\ {words[id].upvote : id \in 1..10} = 1..10) =>
                   /\ [i \in 1..Len(page.items) |-> words[page.items[i].id].upvote]
                        = <<10, 9, 8, 7, 6, 5, 4, 3>>
                   /\ page.totalPages = 2

\* C8 witness: page 1 of a store of 10 approved words of upvotes 10..1 has
\* been listed, and holds 8 items.
C8_Witness ==
    /\ resp.op = "get_words" /\ page.op = "get_words" /\ page.pageNo = 1
    /\ Len(words) = 10 /\ ApprovedIds = 1..10
    /\ {words[id].upvote : id \in 1..10} = 1..10
    /\ Len(page.items) = 8

====
